---- MODULE Spec2Model ----
(***************************************************************************)
(* A model of the chip-tiling engine of FTCNN (src/ftcnn.py) and of its    *)
(* dataset helpers (src/modeling/yolo.py, src/ftcnn/modeling/utils.py):    *)
(*   - the process-wide write lock and the two guarded writers,            *)
(*     write_chip and tiff_to_png          (SpecLock, FairSpecLock);       *)
(*   - create_chips_from_geotiff on one raster          (SpecChips);       *)
(*   - preprocess_ndvi_difference_geotiffs on a batch   (SpecBatch);       *)
(*   - the geometry functions: the pixel/geographic translators and        *)
(*     get_geom_points, get_geom_bboxes, get_geom_polygons (SpecPixels);   *)
(*   - parse_subregion_and_years_from_path              (SpecNames);       *)
(*   - the pool of process_geotiff_to_png_conversion    (SpecPng);         *)
(*   - split_dataset, predict_on_image_stream and                          *)
(*     yolo_get_labels_and_images                       (SpecData).        *)
(***************************************************************************)
EXTENDS Integers, Sequences, FiniteSets, TLC

None == "None"

(***************************************************************************)
(* Numbers as numpy holds them: a number, NaN, or Python's None.           *)
(***************************************************************************)
Num(n) == [kind |-> "num", v |-> n]

NaN == [kind |-> "nan", v |-> 0]

NoneVal == [kind |-> "none", v |-> 0]

\* a == b on array elements: false when either side is NaN or None
NumEq(a, b) == a.kind = "num" /\ b.kind = "num" /\ a.v = b.v

(***************************************************************************)
(* Bounds of the model.                                                    *)
(***************************************************************************)
NumWorkers == 2
MaxCalls == 2
MaxExtent == 3
MaxChip == 2
MaxSide == 2
MaxVerts == 2
MaxCells == 3
MaxName == 2
MaxPairs == 3

VARIABLES
    locked,     \* the flag of _writelock
    wpc,        \* per worker: where it stands in write_chip / tiff_to_png
    wkind,      \* per worker: the function it is running
    wlock,      \* per worker: the local variable `lock`
    wexc,       \* per worker: the exception caught by the handler (`e`)
    wthrown,    \* per worker: what the guarded write of this call raised
    wreleased,  \* per worker: number of unlock() calls made by this call
    wresult,    \* per worker: how the last call ended
    wcalls,     \* per worker: calls started so far
    rast,       \* per raster: the corner lookups and the no-data sentinel
    job,        \* the call's chip_size, exist_ok and whether output_dir is given
    task,       \* per raster: the state of its create_chips_from_geotiff call
    fsys,       \* the chip files on disk
    dirs,       \* the directories on disk
    gdf,        \* the annotation rows given to preprocess_ndvi_difference_geotiffs
    bopts,      \* its years, clean_dest, ignore_empty_geom and num_workers
    bpc,        \* where preprocess_ndvi_difference_geotiffs stands
    table,      \* the rows mapped so far (mapped_gdfs)
    outcome,    \* what the caller gets: the returned table or the raised error
    args,       \* the arguments of a call of one of the pure functions
    ret,        \* what that call returned, once it has
    file_map    \* the dict process_geotiff_to_png_conversion returns

lockVars == <<locked, wpc, wkind, wlock, wexc, wthrown, wreleased, wresult, wcalls>>

chipVars == <<rast, job, task, fsys, dirs>>

batchVars == <<gdf, bopts, bpc, table, outcome>>

funVars == <<args, ret>>

pngVars == <<file_map>>

vars == <<lockVars, chipVars, batchVars, funVars, pngVars>>

notLockVars == <<chipVars, batchVars, funVars, pngVars>>

notChipVars == <<lockVars, batchVars, funVars, pngVars>>

notBatchVars == <<lockVars, funVars, pngVars>>

(***************************************************************************)
(* The write lock.  Lock comes from ftcnn/utils.py; it is used as a flag   *)
(* that is polled (is_locked), set (lock) and cleared (unlock).            *)
(***************************************************************************)
Workers == 1..NumWorkers

Excs == {"IOError", "ValueError"}

Handle == "_writelock"

\* a call that has not ended
NoResult == <<None, None>>

\* Lock.is_locked()
is_locked == locked

\* Lock.lock(): sets the flag, whoever set it before
LockSet == TRUE

\* Lock.unlock(): clears the flag
LockCleared == FALSE

\* the sections between __request_writelock__ returning and __free_writelock__
Guarded == {"write", "free"}

\* write_chip / tiff_to_png are entered: lock = None, then the try block
Call(w) ==
    /\ wpc[w] = "idle"
    /\ wcalls[w] < MaxCalls
    /\ \E k \in {"write_chip", "tiff_to_png"} :
         /\ wkind' = [wkind EXCEPT ![w] = k]
         \* tiff_to_png builds the image inside the try block, before the lock
         /\ wpc' = [wpc EXCEPT ![w] = IF k = "tiff_to_png" THEN "prepare" ELSE "poll"]
    /\ wlock' = [wlock EXCEPT ![w] = None]
    /\ wexc' = [wexc EXCEPT ![w] = None]
    /\ wthrown' = [wthrown EXCEPT ![w] = None]
    /\ wreleased' = [wreleased EXCEPT ![w] = 0]
    /\ wresult' = [wresult EXCEPT ![w] = NoResult]
    /\ wcalls' = [wcalls EXCEPT ![w] = @ + 1]
    /\ UNCHANGED <<locked, notLockVars>>

\* tiff_to_png, the gdal work before the lock is requested: it may raise
Prepare(w) ==
    /\ wpc[w] = "prepare"
    /\ \/ /\ wpc' = [wpc EXCEPT ![w] = "poll"]
          /\ UNCHANGED <<wexc, wthrown>>
       \/ \E e \in Excs :
            /\ wexc' = [wexc EXCEPT ![w] = e]
            /\ wthrown' = [wthrown EXCEPT ![w] = e]
            /\ wpc' = [wpc EXCEPT ![w] = "except"]
    /\ UNCHANGED <<locked, wkind, wlock, wreleased, wresult, wcalls>>
    /\ UNCHANGED notLockVars

\* __request_writelock__: one evaluation of `while _writelock.is_locked()`
Poll(w) ==
    /\ wpc[w] = "poll"
    /\ wpc' = [wpc EXCEPT ![w] = IF is_locked THEN "poll" ELSE "lock"]
    /\ UNCHANGED <<locked, wkind, wlock, wexc, wthrown, wreleased, wresult, wcalls>>
    /\ UNCHANGED notLockVars

\* __request_writelock__: _writelock.lock(); return _writelock
Acquire(w) ==
    /\ wpc[w] = "lock"
    /\ locked' = LockSet
    /\ wlock' = [wlock EXCEPT ![w] = Handle]
    /\ wpc' = [wpc EXCEPT ![w] = "write"]
    /\ UNCHANGED <<wkind, wexc, wthrown, wreleased, wresult, wcalls>>
    /\ UNCHANGED notLockVars

\* the guarded encode: dest.write(data, 1) or skio.imsave(...)
GuardedWrite(w) ==
    /\ wpc[w] = "write"
    /\ \/ /\ wpc' = [wpc EXCEPT ![w] = "free"]
          /\ UNCHANGED <<wexc, wthrown>>
       \/ \E e \in Excs :
            /\ wexc' = [wexc EXCEPT ![w] = e]
            /\ wthrown' = [wthrown EXCEPT ![w] = e]
            /\ wpc' = [wpc EXCEPT ![w] = "except"]
    /\ UNCHANGED <<locked, wkind, wlock, wreleased, wresult, wcalls>>
    /\ UNCHANGED notLockVars

\* mutant of Free: the return without the unlock
FreeKeepsLock(w) ==
    /\ wpc[w] = "free"
    /\ wresult' = [wresult EXCEPT ![w] = <<"returned", None>>]
    /\ wpc' = [wpc EXCEPT ![w] = "idle"]
    /\ UNCHANGED <<locked, wlock, wreleased, wkind, wexc, wthrown, wcalls>>
    /\ UNCHANGED notLockVars

\* lock = __free_writelock__(lock) after the write, then the return
Free(w) ==
    /\ wpc[w] = "free"
    /\ locked' = LockCleared
    /\ wlock' = [wlock EXCEPT ![w] = None]
    /\ wreleased' = [wreleased EXCEPT ![w] = @ + 1]
    /\ wresult' = [wresult EXCEPT ![w] = <<"returned", None>>]
    /\ wpc' = [wpc EXCEPT ![w] = "idle"]
    /\ UNCHANGED <<wkind, wexc, wthrown, wcalls>>
    /\ UNCHANGED notLockVars

\* mutant of HandlerFrees: the handler forgets the lock
HandlerFreesNever(lk) == FALSE

\* `if lock is not None:` in the except block
HandlerFrees(lk) == lk # None

\* what leaves write_chip's handler: raise (e)
Reraised(e) == e

\* except Exception as e: release if held; write_chip re-raises e,
\* tiff_to_png prints e and returns png_img
Handler(w) ==
    /\ wpc[w] = "except"
    /\ IF HandlerFrees(wlock[w])
         THEN /\ locked' = LockCleared
              /\ wlock' = [wlock EXCEPT ![w] = None]
              /\ wreleased' = [wreleased EXCEPT ![w] = @ + 1]
         ELSE UNCHANGED <<locked, wlock, wreleased>>
    /\ wresult' = [wresult EXCEPT ![w] =
                     IF wkind[w] = "write_chip"
                       THEN <<"raised", Reraised(wexc[w])>>
                       ELSE <<"returned", None>>]
    /\ wpc' = [wpc EXCEPT ![w] = "idle"]
    /\ UNCHANGED <<wkind, wexc, wthrown, wcalls>>
    /\ UNCHANGED notLockVars

LockInit ==
    /\ locked = FALSE
    /\ wpc = [w \in Workers |-> "idle"]
    /\ wkind = [w \in Workers |-> None]
    /\ wlock = [w \in Workers |-> None]
    /\ wexc = [w \in Workers |-> None]
    /\ wthrown = [w \in Workers |-> None]
    /\ wreleased = [w \in Workers |-> 0]
    /\ wresult = [w \in Workers |-> NoResult]
    /\ wcalls = [w \in Workers |-> 0]

\* no raster is being processed
ChipsIdle ==
    /\ rast = << >>
    /\ job = [chip_size |-> <<NoneVal, NoneVal>>, exist_ok |-> FALSE, persist |-> FALSE]
    /\ task = << >>
    /\ fsys = {}
    /\ dirs = {}

\* the caller has nothing yet
NoOutcome == [kind |-> None, errors |-> {}, rows |-> << >>]

\* no batch is being processed
BatchIdle ==
    /\ gdf = {}
    /\ bopts = [years |-> <<0, 0>>, clean_dest |-> FALSE,
                ignore_empty_geom |-> FALSE, num_workers |-> 0]
    /\ bpc = "idle"
    /\ table = {}
    /\ outcome = NoOutcome

\* no pure function is being called
NoCall == [fn |-> None]

NoReturn == [done |-> FALSE]

FunIdle ==
    /\ args = NoCall
    /\ ret = NoReturn

\* no conversion to PNG is running: file_map = {}
PngIdle == file_map = << >>

LockNext ==
    \/ \E w \in Workers : Call(w)
    \/ \E w \in Workers : Prepare(w)
    \/ \E w \in Workers : Poll(w)
    \/ \E w \in Workers : Acquire(w)
    \/ \E w \in Workers : GuardedWrite(w)
    \/ \E w \in Workers : Free(w)
    \/ \E w \in Workers : Handler(w)

InitLock == LockInit /\ ChipsIdle /\ BatchIdle /\ FunIdle /\ PngIdle

SpecLock == InitLock /\ [][LockNext]_vars

\* what a worker thread does once it is inside a call
WorkerStep(w) ==
    \/ Prepare(w)
    \/ Poll(w)
    \/ Acquire(w)
    \/ GuardedWrite(w)
    \/ Free(w)
    \/ Handler(w)

\* the threads of the pool are scheduled fairly: a worker that can go on,
\* in particular one whose poll finds the lock free for good, does go on
FairSpecLock ==
    InitLock /\ [][LockNext]_vars /\ \A w \in Workers : WF_vars(WorkerStep(w))

Min(a, b) == IF a <= b THEN a ELSE b

Max(a, b) == IF a >= b THEN a ELSE b

SetMax(S) == CHOOSE x \in S : \A y \in S : y <= x

\* range(a, b, s) for s > 0
PyRange(a, b, s) == {x \in a..(b - 1) : (x - a) % s = 0}

\* the elements of a set of integers in increasing order
RECURSIVE Ascending(_)
Ascending(S) ==
    IF S = {} THEN << >>
    ELSE LET m == CHOOSE x \in S : \A y \in S : x <= y
         IN <<m>> \o Ascending(S \ {m})

(***************************************************************************)
(* create_chips_from_geotiff                                               *)
(***************************************************************************)
\* what the band of a raster holds: one value everywhere, or a mix
Patterns == {"ones", "zeros", "void", "mixed"}

\* output_dir / f"{geotiff_path.stem}_chip_{row}_{col}.tif"
ChipPath(r, row, col) == <<r, row, col>>

\* the directory output_dir lies in
Top == << >>

\* the directory the chips of all rasters go under
Root == <<"output_dir">>

\* the output_dir of one raster's chips: the parent of its chip paths
ChipDir(r) == <<"output_dir", r>>

\* output_dir.mkdir(parents=True, exist_ok=True)
Mkdir(r) == dirs \cup {Top, Root, ChipDir(r)}

Exists(path) == \E f \in fsys : f.path = path

\* rmin, rmax = min(rmin, rmax), max(rmin, rmax), and the same for columns
Bounds(ra) ==
    [rmin |-> Min(ra.tl_row, ra.br_row), rmax |-> Max(ra.tl_row, ra.br_row),
     cmin |-> Min(ra.tl_col, ra.br_col), cmax |-> Max(ra.tl_col, ra.br_col)]

\* if width is None or height is None: the whole extent
Resolved(size, b) ==
    IF size[1].kind = "none" \/ size[2].kind = "none"
      THEN <<b.cmax - b.cmin, b.rmax - b.rmin>>
      ELSE <<size[1].v, size[2].v>>

\* the (row, col) pairs of the two nested range() loops, in loop order
RECURSIVE Grid(_, _)
Grid(rows, cols) ==
    IF rows = << >> THEN << >>
    ELSE [i \in 1..Len(cols) |-> <<Head(rows), cols[i]>>] \o Grid(Tail(rows), cols)

Positions(b, width, height) ==
    Grid(Ascending(PyRange(b.rmin, b.rmax, height)),
         Ascending(PyRange(b.cmin, b.cmax, width)))

\* mutant of RemWidth: the remainder overshoots the edge
RemWidthOver(cmax, col) == cmax - col + 1

\* rem_width = cmax - col - 1
RemWidth(cmax, col) == cmax - col - 1

\* rem_height = rmax - row - 1
RemHeight(rmax, row) == rmax - row - 1

\* chip_window = Window(col_off=col, row_off=row, width=min(..), height=min(..))
ChipWindow(t, row, col) ==
    [col_off |-> col, row_off |-> row,
     width |-> Min(t.width, RemWidth(t.b.cmax, col)),
     height |-> Min(t.height, RemHeight(t.b.rmax, row))]

\* chip_data[chip_data == src.nodata] = np.NaN
MaskNoData(vals, nodata) ==
    IF \E v \in vals : NumEq(v, nodata)
      THEN {v \in vals : ~NumEq(v, nodata)} \cup {NaN}
      ELSE vals

\* chip_data.max(): NaN as soon as one element is NaN
ArrMax(vals) ==
    IF NaN \in vals THEN NaN
    ELSE Num(SetMax({v.v : v \in vals}))

\* the test of `if (...) or (...): continue`
Rejects(shape, vals, nodata) ==
    \/ shape[1] = 0
    \/ shape[2] = 0
    \/ NumEq(ArrMax(vals), Num(0))
    \/ NumEq(ArrMax(vals), nodata)
    \/ 10 * Min(shape[1], shape[2]) < Max(shape[1], shape[2])

\* the band of a raster, pixel by pixel
Pix(pattern, row, col) ==
    CASE pattern = "ones" -> 1
      [] pattern = "zeros" -> 0
      [] pattern = "void" -> -2
      [] pattern = "mixed" -> CASE (row + col) % 3 = 0 -> -2
                                [] (row + col) % 3 = 1 -> 0
                                [] OTHER -> 1

\* src.read(1, window=chip_window): the values of the pixels of the window
ReadWindow(ra, win) ==
    {Num(Pix(ra.pattern, row, col)) :
        row \in win.row_off..(win.row_off + win.height - 1),
        col \in win.col_off..(win.col_off + win.width - 1)}

\* the file rasterio.open(output_path, "w") leaves at the path
NewFile(path, win) ==
    [path |-> path, gen |-> "new", width |-> win.width, height |-> win.height]

\* mutant of PathCollides: the existing file is not looked for
PathNeverCollides(path) == FALSE

\* if chip_output_path.exists() and not exist_ok
PathCollides(path) == Exists(path) /\ ~job.exist_ok

\* with rasterio.open(...) as src: the bounds, the resolved chip size, the
\* `return []` for an empty size, and the entry of the loops
OpenRaster(r) ==
    /\ task[r].pc = "start"
    /\ \/ \* rasterio.open raises: the file is missing or cannot be read
          task' = [task EXCEPT ![r] = [@ EXCEPT !.pc = "raised", !.err = "IOFailure"]]
       \/ LET b == Bounds(rast[r])
               size == Resolved(job.chip_size, b)
               pos == IF size[1] <= 0 \/ size[2] <= 0 THEN << >>
                      ELSE Positions(b, size[1], size[2])
          IN task' = [task EXCEPT ![r] =
                        [@ EXCEPT !.b = b, !.width = size[1], !.height = size[2],
                                  !.todo = pos,
                                  !.pc = IF pos = << >> THEN "returned" ELSE "loop"]]
    /\ UNCHANGED <<rast, job, fsys, dirs>>
    /\ UNCHANGED notChipVars

\* the next position of the loops, or the return after the last one
Advance(t) ==
    [t EXCEPT !.todo = Tail(t.todo),
              !.pc = IF Len(t.todo) = 1 THEN "returned" ELSE "loop"]

\* one pass through the body of the inner loop
ChipIteration(r) ==
    /\ task[r].pc = "loop"
    /\ LET t == task[r]
           row == Head(t.todo)[1]
           col == Head(t.todo)[2]
           path == ChipPath(r, row, col)
           win == ChipWindow(t, row, col)
           seen == [t EXCEPT !.wins = Append(t.wins, win)]
       IN IF job.persist /\ PathCollides(path)
            THEN \* raise FileExistsError
                 /\ task' = [task EXCEPT ![r] =
                               [t EXCEPT !.pc = "raised", !.err = "FileExistsError"]]
                 /\ UNCHANGED fsys
            ELSE \/ \* src.read fails
                    /\ task' = [task EXCEPT ![r] =
                                  [seen EXCEPT !.pc = "raised", !.err = "IOFailure"]]
                    /\ UNCHANGED fsys
                 \/ LET raw == ReadWindow(rast[r], win)
                          shape == <<win.height, win.width>>
                          vals == MaskNoData(raw, rast[r].nodata)
                          void == raw # {} /\ \A v \in raw : NumEq(v, rast[r].nodata)
                          read == [seen EXCEPT !.void = IF void THEN @ \cup {<<row, col>>}
                                                        ELSE @]
                      IN IF Rejects(shape, vals, rast[r].nodata)
                           THEN \* continue
                                /\ task' = [task EXCEPT ![r] =
                                     Advance([read EXCEPT !.rejected = @ \cup {<<row, col>>}])]
                                /\ UNCHANGED fsys
                           ELSE \/ \* write_chip returns: chips.append(...)
                                   /\ task' = [task EXCEPT ![r] =
                                        Advance([read EXCEPT
                                                   !.chips = Append(@, <<row, col>>),
                                                   !.written = @ \cup {<<row, col>>},
                                                   !.clobbered =
                                                       IF job.persist /\ Exists(path)
                                                         THEN @ \cup {<<row, col>>}
                                                         ELSE @])]
                                   /\ fsys' = IF job.persist
                                                THEN {f \in fsys : f.path # path}
                                                       \cup {NewFile(path, win)}
                                                ELSE fsys
                                \/ \* write_chip raises
                                   /\ task' = [task EXCEPT ![r] =
                                        [read EXCEPT !.pc = "raised",
                                                     !.err = "IOFailure",
                                                     !.tried = @ \cup {<<row, col>>}]]
                                   /\ UNCHANGED fsys
    /\ dirs' = IF job.persist /\ ~PathCollides(ChipPath(r, Head(task[r].todo)[1],
                                                         Head(task[r].todo)[2]))
                THEN Mkdir(r)
                ELSE dirs
    /\ UNCHANGED <<rast, job>>
    /\ UNCHANGED notChipVars

\* a call that has not started
NewTask ==
    [pc |-> "start", err |-> None,
     b |-> [rmin |-> 0, rmax |-> 0, cmin |-> 0, cmax |-> 0],
     width |-> 0, height |-> 0, todo |-> << >>,
     wins |-> << >>, chips |-> << >>,
     void |-> {}, rejected |-> {}, written |-> {}, tried |-> {}, clobbered |-> {}]

\* a band and its no-data sentinel: -2, or none where -2 is in the band
Bands ==
    {[pattern |-> p, nodata |-> Num(-2)] : p \in Patterns}
      \cup {[pattern |-> p, nodata |-> NoneVal] : p \in {"void", "mixed"}}

\* a raster: the two corner lookups and the band
Raster(tr, tc, br, bc, band) ==
    [tl_row |-> tr, tl_col |-> tc, br_row |-> br, br_col |-> bc,
     pattern |-> band.pattern, nodata |-> band.nodata]

\* a chip width or height: null, or a number
ChipSizes == {NoneVal} \cup {Num(n) : n \in 0..MaxChip}

\* chip_size: both numbers, both null, or one of them null
ChipSizePairs ==
    {<<Num(w), Num(h)>> : w \in 0..MaxChip, h \in 0..MaxChip}
      \cup {<<NoneVal, NoneVal>>, <<NoneVal, Num(1)>>, <<Num(1), NoneVal>>}

\* rasters of a few pixels, with every order of the two corner lookups
GridInputs ==
    {[rast |-> Raster(tr, tc, br, bc, band), chip_size |-> size] :
        tr \in {0, 1}, tc \in {0, 1}, br \in 0..MaxExtent, bc \in 0..MaxExtent,
        band \in Bands, size \in ChipSizePairs}

\* two rows and a long line of columns, cut as one chip
WideInputs ==
    {[rast |-> Raster(0, 0, 2, bc, band), chip_size |-> <<NoneVal, NoneVal>>] :
        bc \in {10 * MaxChip, 10 * MaxChip + 3}, band \in Bands}

\* a 600 x 600 raster cut into chips of 256 x 256
Scenario1 ==
    [rast |-> Raster(0, 0, 600, 600, [pattern |-> "ones", nodata |-> Num(-2)]),
     chip_size |-> <<Num(256), Num(256)>>]

\* a chip file left by an earlier run
OldFile(path) == [path |-> path, gen |-> "old", width |-> 1, height |-> 1]

\* the directories that hold the files
DirsOf(files) == UNION {{Top, Root, ChipDir(f.path[1])} : f \in files}

\* the directory before the run: empty, or one chip file of an earlier run
OldFiles(r) ==
    {{}, {OldFile(ChipPath(r, 0, 0))}, {OldFile(ChipPath(r, MaxChip, MaxChip))}}

ChipsInit ==
    /\ \E in \in GridInputs \cup WideInputs \cup {Scenario1} :
         /\ rast = <<in.rast>>
         /\ \E ok \in BOOLEAN, p \in BOOLEAN :
              /\ p \/ ~ok
              /\ job = [chip_size |-> in.chip_size, exist_ok |-> ok, persist |-> p]
              /\ fsys \in IF p THEN OldFiles(1) ELSE {{}}
    /\ dirs = DirsOf(fsys)
    /\ task = <<NewTask>>

ChipsNext ==
    \/ \E r \in DOMAIN task : OpenRaster(r)
    \/ \E r \in DOMAIN task : ChipIteration(r)

InitChips == ChipsInit /\ LockInit /\ BatchIdle /\ FunIdle /\ PngIdle

SpecChips == InitChips /\ [][ChipsNext]_vars

(***************************************************************************)
(* preprocess_ndvi_difference_geotiffs                                     *)
(***************************************************************************)
\* the rasters of a batch
BatchRasters == {1, 2}

YearPairs == {<<2015, 2019>>, <<2019, 2023>>}

\* `years` when no filter is given
AllYears == <<0, 0>>

\* geometry: an axis-parallel rectangle, or the empty polygon
Rect(x1, y1, x2, y2) == [empty |-> FALSE, x1 |-> x1, y1 |-> y1, x2 |-> x2, y2 |-> y2]

\* mutant of EmptyPolygon: the placeholder is a box at the origin
PlaceholderBox == Rect(0, 0, 0, 0)

\* Polygon()
EmptyPolygon == [empty |-> TRUE, x1 |-> 0, y1 |-> 0, x2 |-> 0, y2 |-> 0]

\* gdf.intersects(chip_polygon), for one row
Intersects(a, b) ==
    /\ ~a.empty /\ ~b.empty
    /\ a.x1 <= b.x2 /\ b.x1 <= a.x2
    /\ a.y1 <= b.y2 /\ b.y1 <= a.y2

\* polygon_row["geometry"].intersection(chip_polygon)
Intersection(a, b) ==
    Rect(Max(a.x1, b.x1), Max(a.y1, b.y1), Min(a.x2, b.x2), Min(a.y2, b.y2))

\* create_chip_polygon: the four corners of the chip file, through its transform
create_chip_polygon(f) ==
    Rect(f.path[3], f.path[2], f.path[3] + f.width, f.path[2] + f.height)

\* the file name of a raster: its stem and the extension
FileName(stem) == stem \o <<".", "t", "i", "f">>

\* a row of gdf: the raster it annotates (the name and the path of its file),
\* its years and its geometry
Annotation(r, stem, yp, g) ==
    [filename |-> FileName(stem), path |-> r,
     start_year |-> yp[1], end_year |-> yp[2], geometry |-> g]

\* pathify (ftcnn/utils.py): every str becomes the Path of the same file, so
\* the list keeps its entries and an empty list stays empty
pathify(paths) == paths

\* mutant of Images: the years are not looked at
ImagesOfAllYears == pathify({a.path : a \in gdf})

\* imgs = pathify(get_filepaths(gdf)): all_images, or match_years
Images ==
    IF bopts.years = AllYears
      THEN pathify({a.path : a \in gdf})
      ELSE pathify({a.path : a \in {x \in gdf : /\ x.start_year = bopts.years[1]
                                                /\ x.end_year = bopts.years[2]}})

\* clear_directory(output_dir): no file is left under it
ClearDirectory(files) == {}

\* clear_directory(output_dir): nor any directory, but output_dir itself
ClearedDirs(ds) == ds \cap {Top, Root}

\* preprocess_geotiff_dataset, then the executor.submit of every image
Submit ==
    /\ bpc = "call"
    /\ IF Images = {}
         THEN \* raise Exception("Could not find images")
              /\ bpc' = "done"
              /\ outcome' = [kind |-> "raised", errors |-> {}, rows |-> << >>]
              /\ UNCHANGED <<task, fsys, dirs>>
         ELSE /\ bpc' = "pool"
              /\ fsys' = IF bopts.clean_dest THEN ClearDirectory(fsys) ELSE fsys
              /\ dirs' = IF bopts.clean_dest THEN ClearedDirs(dirs) ELSE dirs
              /\ task' = [r \in DOMAIN task |->
                            IF r \in Images THEN [task[r] EXCEPT !.pc = "queued"]
                            ELSE task[r]]
              /\ UNCHANGED outcome
    /\ UNCHANGED <<rast, job, gdf, bopts, table>>
    /\ UNCHANGED notBatchVars

Running == {r \in DOMAIN task : task[r].pc \in {"start", "loop"}}

\* a pool thread takes the oldest queued call
Dequeue(r) ==
    /\ bpc = "pool"
    /\ task[r].pc = "queued"
    /\ Cardinality(Running) < bopts.num_workers
    /\ \A q \in DOMAIN task : q < r => task[q].pc # "queued"
    /\ task' = [task EXCEPT ![r].pc = "start"]
    /\ UNCHANGED <<rast, job, fsys, dirs>>
    /\ UNCHANGED notChipVars

\* mutant of PoolDrained: a failed call shuts the pool down at once
PoolDrainedOrFailed ==
    \/ \A r \in DOMAIN task : task[r].pc \in {"idle", "returned", "raised"}
    \/ \E r \in DOMAIN task : task[r].pc = "raised"

\* the exit of `with ThreadPoolExecutor(...)`: shutdown(wait=True), every
\* submitted call has returned or raised
PoolDrained ==
    \A r \in DOMAIN task : task[r].pc \in {"idle", "returned", "raised"}

\* what the caller is handed of the futures' exceptions: as_completed(futures)
\* is only counted, no future's result() or exception() is asked for
Collected(futures) == {}

\* for _ in as_completed(futures): pbar.update(), and the end of the with block
Join ==
    /\ bpc = "pool"
    /\ PoolDrained
    /\ bpc' = "map"
    /\ outcome' = [outcome EXCEPT !.errors =
                     Collected({r \in DOMAIN task : task[r].pc = "raised"})]
    /\ UNCHANGED <<gdf, bopts, table>>
    /\ UNCHANGED <<notBatchVars, chipVars>>

\* gdf[[start_year_col, end_year_col]].drop_duplicates()
GroupYears == {<<a.start_year, a.end_year>> : a \in gdf}

\* os.path.splitext(filename)[0]: the name without its last extension
SplitExt(filename) ==
    IF \E i \in 2..Len(filename) : filename[i] = "."
      THEN LET dot == CHOOSE i \in 2..Len(filename) :
                         /\ filename[i] = "."
                         /\ \A j \in (i + 1)..Len(filename) : filename[j] # "."
           IN SubSeq(filename, 1, dot - 1)
      ELSE filename

\* the stem of f"{geotiff_path.stem}_chip_{row}_{col}.tif"
ChipStem(path) ==
    rast[path[1]].stem \o <<"_", "c", "h", "i", "p", "_">>
        \o <<ToString(path[2]), "_", ToString(path[3])>>

\* stem[:n]
Prefix(stem, n) == SubSeq(stem, 1, Min(n, Len(stem)))

\* x in name, for two strings
IsSubstring(x, name) ==
    \E i \in 0..(Len(name) - Len(x)) : SubSeq(name, i + 1, i + Len(x)) = x

\* orig_stems: the stems of the "filename" column
orig_stems(target) == {SplitExt(a.filename) : a \in target}

\* compare_stem: the stem, cut to the length of a name, is found in that name
compare_stem(stem, names) ==
    \E name \in names : IsSubstring(Prefix(stem, Len(name)), name)

\* the .tif files under img_dir whose stem passes compare_stem
ImagePaths(target) ==
    {f \in fsys : compare_stem(ChipStem(f.path), orig_stems(target))}

\* map_geometry_to_geotiffs(target_years, output_dir), with the year columns
MapGroup(yp) ==
    LET target == {a \in gdf : a.start_year = yp[1] /\ a.end_year = yp[2]}
        Row(f, g) == [path |-> f.path, width |-> f.width, height |-> f.height,
                      start_year |-> yp[1], end_year |-> yp[2], geometry |-> g]
        RowsOf(f) ==
            LET hit == {a \in target : Intersects(a.geometry, create_chip_polygon(f))}
            IN IF hit # {}
                 THEN {Row(f, Intersection(a.geometry, create_chip_polygon(f))) : a \in hit}
                 ELSE {Row(f, EmptyPolygon)}
    IN UNION {RowsOf(f) : f \in ImagePaths(target)}

\* the loop over the year pairs and the pd.concat of the mapped groups
MapGeometry ==
    /\ bpc = "map"
    /\ table' = UNION {MapGroup(yp) : yp \in GroupYears}
    /\ bpc' = "clean"
    /\ UNCHANGED <<gdf, bopts, outcome>>
    /\ UNCHANGED <<notBatchVars, chipVars>>

\* mutant of YearsBefore: the later years come first
YearsAfter(a, b) ==
    \/ a.start_year > b.start_year
    \/ a.start_year = b.start_year /\ a.end_year >= b.end_year

\* the order of sort_values(by=[start_year_col, end_year_col])
YearsBefore(a, b) ==
    \/ a.start_year < b.start_year
    \/ a.start_year = b.start_year /\ a.end_year <= b.end_year

\* gdf.drop_duplicates().sort_values(by=[start_year_col, end_year_col])
RECURSIVE SortByYears(_)
SortByYears(rows) ==
    IF rows = {} THEN << >>
    ELSE LET first == CHOOSE x \in rows : \A y \in rows : YearsBefore(x, y)
         IN <<first>> \o SortByYears(rows \ {first})

\* mutant of ListdirLen: every directory is taken for empty
ListdirLenZero(d, files, ds) == 0

\* len(os.listdir(d)): the files and the directories right under d
ListdirLen(d, files, ds) ==
    Cardinality({f \in files : ChipDir(f.path[1]) = d})
      + Cardinality({e \in ds : Len(e) = Len(d) + 1 /\ SubSeq(e, 1, Len(d)) = d})

\* the ignore_empty_geom filter with its clean-up, then the sorted table
Finish ==
    /\ bpc = "clean"
    /\ LET unused == IF bopts.ignore_empty_geom
                       THEN {x.path : x \in {y \in table : y.geometry.empty}}
                       ELSE {}
           kept == IF bopts.ignore_empty_geom
                     THEN {x \in table : ~x.geometry.empty}
                     ELSE table
           left == {f \in fsys : f.path \notin unused}
           \* os.rmdir(parent) of the parents that exist and list nothing
           gone == {d \in dirs : /\ \E q \in unused : d = ChipDir(q[1])
                                 /\ ListdirLen(d, left, dirs) = 0}
       IN /\ fsys' = left
          \* os.rmdir(parent_parent) when a parent went and nothing is left in it
          /\ dirs' = IF /\ gone # {}
                        /\ Root \in dirs
                        /\ ListdirLen(Root, left, dirs \ gone) = 0
                        THEN dirs \ (gone \cup {Root})
                        ELSE dirs \ gone
          /\ table' = kept
          /\ outcome' = [outcome EXCEPT !.kind = "returned", !.rows = SortByYears(kept)]
    /\ bpc' = "done"
    /\ UNCHANGED <<rast, job, task, gdf, bopts>>
    /\ UNCHANGED notBatchVars

\* the bands of the rasters of a batch
BatchBands ==
    {[pattern |-> p, nodata |-> Num(-2)] : p \in {"ones", "zeros"}}

\* an annotation over the whole raster
Over == Rect(0, 0, MaxExtent, MaxExtent)

\* one far from it
Far == Rect(10 * MaxExtent, 10 * MaxExtent, 11 * MaxExtent, 11 * MaxExtent)

\* one over the raster and beyond it
Beyond == Rect(0, 0, 2 * MaxExtent, 2 * MaxExtent)

\* one over the first pixel
Corner == Rect(0, 0, 1, 1)

\* the geometries of the rows that annotate one raster
AnnotationRects == {{Over}, {Far}, {Over, Beyond}, {Over, Corner}}

\* a raster of the batch: its file's stem with the raster
NamedRaster(stem, ra) ==
    [tl_row |-> ra.tl_row, tl_col |-> ra.tl_col, br_row |-> ra.br_row,
     br_col |-> ra.br_col, pattern |-> ra.pattern, nodata |-> ra.nodata,
     stem |-> stem]

\* the stems of the two rasters: unrelated, or one beginning with the other
RasterStems == {<<<<"a">>, <<"b">>>>, <<<<"a", "x">>, <<"a">>>>}

BatchInit ==
    /\ \E b1 \in BatchBands, b2 \in BatchBands, st \in RasterStems :
         rast = <<NamedRaster(st[1], Raster(0, 0, MaxExtent, MaxExtent, b1)),
                  NamedRaster(st[2], Raster(0, 0, MaxExtent, MaxExtent, b2))>>
    /\ \E ok \in BOOLEAN :
         job = [chip_size |-> <<Num(MaxChip), Num(MaxChip)>>,
                exist_ok |-> ok, persist |-> TRUE]
    /\ bopts \in [years : {AllYears, <<2015, 2019>>, <<2000, 2001>>},
                  clean_dest : BOOLEAN, ignore_empty_geom : BOOLEAN,
                  num_workers : {1, 2}]
    /\ \E yp \in YearPairs, gs \in AnnotationRects :
         gdf = {Annotation(1, rast[1].stem, <<2015, 2019>>, g) : g \in gs}
                 \cup {Annotation(2, rast[2].stem, yp, Over)}
    /\ fsys \in {{}, {OldFile(ChipPath(1, 0, 0))}, {OldFile(ChipPath(1, 0, MaxChip))}}
    /\ dirs = DirsOf(fsys)
    /\ task = [r \in BatchRasters |-> [NewTask EXCEPT !.pc = "idle"]]
    /\ bpc = "call"
    /\ table = {}
    /\ outcome = NoOutcome

BatchNext ==
    \/ Submit
    \/ \E r \in DOMAIN task : Dequeue(r)
    \/ \E r \in DOMAIN task : OpenRaster(r)
    \/ \E r \in DOMAIN task : ChipIteration(r)
    \/ Join
    \/ MapGeometry
    \/ Finish

InitBatch == BatchInit /\ LockInit /\ FunIdle /\ PngIdle

SpecBatch == InitBatch /\ [][BatchNext]_vars

(***************************************************************************)
(* geotiff_convert_geometry_to_pixels and clip_points                      *)
(***************************************************************************)
\* src.index(x, y) of a north-up raster with pixels of size 1: (row, col)
SrcIndex(src, x, y) == <<src.top - y, x - src.left>>

\* mutant of Reversed: the lookup is used as it comes, (row, col)
NotReversed(p) == p

\* [::-1] on a pair
Reversed(p) == <<p[2], p[1]>>

\* clip_points(points, shape): x = max(0, min(x, width - 1)), the same for y
clip_points(points, shape) ==
    [i \in DOMAIN points |->
        <<Max(0, Min(points[i][1], shape[1] - 1)),
          Max(0, Min(points[i][2], shape[2] - 1))>>]

\* __append_point_pixels over polygon.exterior.coords, then clip_points
geotiff_convert_geometry_to_pixels(src, coords) ==
    clip_points([i \in DOMAIN coords |->
                    Reversed(SrcIndex(src, coords[i][1], coords[i][2]))],
                <<src.width, src.height>>)

\* the values of geom_type and of type() the consumers dispatch on
GeomTypes == {"Polygon", "MultiPolygon", "LineString", "Point"}

\* a call that raised, and one that returned
Raised(e) == [done |-> TRUE, err |-> e]
Returned(v) == [done |-> TRUE, err |-> None, value |-> v]

\* the call on a shapely geometry: coords are the exterior vertices of the
\* simplified, normalized polygon; any geometry that is not a Polygon (and
\* not a str) raises
ConvertGeometryToPixels ==
    /\ args.fn = "geotiff_convert_geometry_to_pixels"
    /\ ~ret.done
    /\ ret' = IF args.gtype = "Polygon"
              THEN Returned(geotiff_convert_geometry_to_pixels(args.src, args.coords))
              ELSE Raised("ValueError")
    /\ UNCHANGED <<args, lockVars, chipVars, batchVars, pngVars>>

(***************************************************************************)
(* translate_xy_coords_to_index                                            *)
(***************************************************************************)
\* a geometry with the frame its coordinates are expressed in
Geometry(gtype, frame, coords) ==
    [gtype |-> gtype, frame |-> frame, coords |-> coords]

\* the body of the loop over gdf.iterrows()
TranslateRow(src, row) ==
    IF row.exists /\ row.geometry.gtype = "Polygon"
    THEN [row EXCEPT !.geometry =
            Geometry("Polygon", "pixel",
                     geotiff_convert_geometry_to_pixels(src, row.geometry.coords))]
    ELSE row

translate_xy_coords_to_index(src, rows) ==
    [i \in DOMAIN rows |-> TranslateRow(src, rows[i])]

TranslateXyCoordsToIndex ==
    /\ args.fn = "translate_xy_coords_to_index"
    /\ ~ret.done
    /\ ret' = Returned(translate_xy_coords_to_index(args.src, args.rows))
    /\ UNCHANGED <<args, lockVars, chipVars, batchVars, pngVars>>

(***************************************************************************)
(* geotiff_convert_pixels_to_geometry                                      *)
(***************************************************************************)
\* src.xy(row, col): the centre of the pixel, in half pixels
SrcXy(src, row, col) == <<2 * (src.left + col) + 1, 2 * (src.top - row) - 1>>

\* [(pixels[i], pixels[i + 1]) for i in range(len(pixels) - 1)]
PairUp(pixels) ==
    [i \in 1..(Len(pixels) - 1) |-> <<pixels[i], pixels[i + 1]>>]

\* the ring handed to Polygon(), then every point of it through src.xy;
\* shapely refuses a ring of fewer than three points
PixelsToGeometry(src, ring) ==
    IF Len(ring) < 3
    THEN Raised("ValueError")
    ELSE Returned([ring |-> ring,
                   coords |-> [i \in DOMAIN ring |->
                                  SrcXy(src, ring[i][2], ring[i][1])]])

\* the call on a Polygon, on a list of tuples, on a flat list of numbers
\* (args.flat: pixels[0] is not a tuple) and on any other geometry
ConvertPixelsToGeometry ==
    /\ args.fn = "geotiff_convert_pixels_to_geometry"
    /\ ~ret.done
    /\ ret' = CASE args.gtype = "Polygon" -> PixelsToGeometry(args.src, args.pixels)
                [] args.gtype = "list" /\ args.flat ->
                      PixelsToGeometry(args.src, PairUp(args.pixels))
                [] args.gtype = "list" /\ ~args.flat ->
                      PixelsToGeometry(args.src, args.pixels)
                [] OTHER -> Raised("ValueError")
    /\ UNCHANGED <<args, lockVars, chipVars, batchVars, pngVars>>

(***************************************************************************)
(* get_geom_points, get_geom_bboxes and get_geom_polygons                  *)
(***************************************************************************)
\* A polygon is a run of unit cells of a strip one cell high: the set of
\* the cells' numbers.  Two polygons share an edge when their runs abut.
SetMin(S) == CHOOSE x \in S : \A y \in S : x <= y

\* geom.bounds: (minx, miny, maxx, maxy)
GeomBounds(p) == <<SetMin(p) - 1, 0, SetMax(p), 1>>

\* shapely.box(*bounds)
Box(b) == [minx |-> b[1], miny |-> b[2], maxx |-> b[3], maxy |-> b[4]]

\* polygon.exterior.coords, a closed ring
ExteriorCoords(p) ==
    LET b == GeomBounds(p)
    IN <<<<b[1], b[2]>>, <<b[1], b[4]>>, <<b[3], b[4]>>, <<b[3], b[2]>>,
         <<b[1], b[2]>>>>

get_geom_points(geom) ==
    CASE geom.gtype = "Polygon" -> Returned(ExteriorCoords(geom.parts[1]))
      [] geom.gtype = "MultiPolygon" ->
            Returned([i \in DOMAIN geom.parts |-> ExteriorCoords(geom.parts[i])])
      [] OTHER -> Raised("ValueError")

\* the default case prints and falls through to the return
get_geom_bboxes(geom) ==
    CASE geom.gtype = "Polygon" -> Returned(<<Box(GeomBounds(geom.parts[1]))>>)
      [] geom.gtype = "MultiPolygon" ->
            Returned([i \in DOMAIN geom.parts |-> Box(GeomBounds(geom.parts[i]))])
      [] OTHER -> Returned(<< >>)

Adjacent(p, q) ==
    /\ p \cap q = {}
    /\ \E c \in p : (c + 1) \in q \/ (c - 1) \in q

\* shapely.coverage_union(flat, polygon) for two polygons of a coverage: the
\* two of them when they share no edge, their union when they do.  The
\* union of one polygon comes back as a collection of one polygon or as
\* the polygon itself (bare), which has no geoms.
coverage_union(flat, polygon, bare) ==
    IF Adjacent(flat, polygon)
    THEN [gtype |-> IF bare THEN "Polygon" ELSE "MultiPolygon",
          parts |-> <<flat \cup polygon>>]
    ELSE [gtype |-> "MultiPolygon", parts |-> <<flat, polygon>>]

\* the polygons of union.geoms that equal neither operand
Merged(flat, polygon) ==
    SelectSeq(coverage_union(flat, polygon, FALSE).parts,
              LAMBDA poly : poly # flat /\ poly # polygon)

\* the index of the first entry of flattened the polygon merges with, or 0
FirstMerge(flattened, polygon) ==
    IF \E i \in DOMAIN flattened : Merged(flattened[i], polygon) # << >>
    THEN CHOOSE i \in DOMAIN flattened :
            /\ Merged(flattened[i], polygon) # << >>
            /\ \A j \in 1..(i - 1) : Merged(flattened[j], polygon) = << >>
    ELSE 0

\* one turn of the loop over the constituent polygons
FlattenStep(flattened, polygon) ==
    LET i == FirstMerge(flattened, polygon)
    IN IF i = 0
       THEN Append(flattened, polygon)
       ELSE [flattened EXCEPT ![i] = Merged(flattened[i], polygon)[1]]

\* the loop over the constituent polygons; union.geoms of a bare polygon
\* is an AttributeError
RECURSIVE Flatten(_, _, _)
Flatten(flattened, polygons, bare) ==
    IF polygons = << >>
    THEN Returned(flattened)
    ELSE LET i == FirstMerge(flattened, Head(polygons))
         IN IF i # 0 /\ coverage_union(flattened[i], Head(polygons), bare).gtype
                           = "Polygon"
            THEN Raised("AttributeError")
            ELSE Flatten(FlattenStep(flattened, Head(polygons)),
                         Tail(polygons), bare)

get_geom_polygons(geom, flatten, bare) ==
    CASE geom.gtype = "Polygon" -> Returned(<<geom.parts[1]>>)
      [] geom.gtype = "MultiPolygon" ->
            IF flatten THEN Flatten(<< >>, geom.parts, bare)
            ELSE Returned(geom.parts)
      [] OTHER -> Raised("ValueError")

GetGeomPoints ==
    /\ args.fn = "get_geom_points"
    /\ ~ret.done
    /\ ret' = get_geom_points(args.geom)
    /\ UNCHANGED <<args, lockVars, chipVars, batchVars, pngVars>>

GetGeomBboxes ==
    /\ args.fn = "get_geom_bboxes"
    /\ ~ret.done
    /\ ret' = get_geom_bboxes(args.geom)
    /\ UNCHANGED <<args, lockVars, chipVars, batchVars, pngVars>>

GetGeomPolygons ==
    /\ args.fn = "get_geom_polygons"
    /\ ~ret.done
    /\ \E bare \in BOOLEAN :
         ret' = get_geom_polygons(args.geom, args.flatten, bare)
    /\ UNCHANGED <<args, lockVars, chipVars, batchVars, pngVars>>

(***************************************************************************)
(* The inputs of the geometry functions                                    *)
(***************************************************************************)
\* the sequences over S of length 1 to n
SeqsUpTo(S, n) == UNION {[1..k -> S] : k \in 1..n}

\* rasters of a few pixels whose left edge is at x = 1 and top edge at y = 0
PixelRasters ==
    {[left |-> 1, top |-> 0, width |-> w, height |-> h] :
        w \in 1..MaxSide, h \in 1..MaxSide}

\* vertices on the raster, on its edges and one pixel outside it
GeoVertices == {<<x, y>> : x \in 0..(MaxSide + 2), y \in (-(MaxSide + 1))..1}

\* a vertex inside the raster and one outside it
RowVertices == {<<1, 0>>, <<MaxSide + 2, 1>>}

\* the rows of the output table: the chip file is there or not, the
\* geometry is of any type, in geographic coordinates
TableRows ==
    {[exists |-> e, geometry |-> Geometry(t, "geo", <<v>>)] :
        e \in BOOLEAN, t \in GeomTypes, v \in RowVertices}

\* pixel coordinates of a raster
PixelNumbers == 0..(MaxSide - 1)

\* flat lists of 2n numbers
FlatLists == UNION {[1..(2 * n) -> PixelNumbers] : n \in 1..(MaxVerts + 1)}

\* rings of three vertices
Rings == [1..3 -> PixelNumbers \X PixelNumbers]

\* the runs of cells of a strip of MaxCells cells
Runs == {a..b : a \in 1..MaxCells, b \in 1..MaxCells} \ {{}}

\* the lists of runs no two of which overlap
Coverages ==
    {ps \in SeqsUpTo(Runs, MaxCells) :
        \A i \in DOMAIN ps, j \in DOMAIN ps : i # j => ps[i] \cap ps[j] = {}}

\* the geometries handed to get_geom_points, get_geom_bboxes and
\* get_geom_polygons
Geoms ==
    {[gtype |-> "Polygon", parts |-> <<p>>] : p \in Runs}
      \cup {[gtype |-> "MultiPolygon", parts |-> ps] : ps \in Coverages}
      \cup {[gtype |-> t, parts |-> << >>] : t \in {"LineString", "Point"}}

PixelsInit ==
    /\ \/ \E src \in PixelRasters, coords \in SeqsUpTo(GeoVertices, MaxVerts) :
            args = [fn |-> "geotiff_convert_geometry_to_pixels",
                    src |-> src, gtype |-> "Polygon", coords |-> coords]
       \/ \E src \in PixelRasters, t \in GeomTypes \ {"Polygon"} :
            args = [fn |-> "geotiff_convert_geometry_to_pixels",
                    src |-> src, gtype |-> t, coords |-> << >>]
       \/ \E src \in PixelRasters, rows \in SeqsUpTo(TableRows, MaxVerts) :
            args = [fn |-> "translate_xy_coords_to_index",
                    src |-> src, rows |-> rows]
       \/ \E src \in PixelRasters, pixels \in FlatLists :
            args = [fn |-> "geotiff_convert_pixels_to_geometry", src |-> src,
                    gtype |-> "list", flat |-> TRUE, pixels |-> pixels]
       \/ \E src \in PixelRasters, pixels \in Rings, t \in {"list", "Polygon"} :
            args = [fn |-> "geotiff_convert_pixels_to_geometry", src |-> src,
                    gtype |-> t, flat |-> FALSE, pixels |-> pixels]
       \/ \E src \in PixelRasters, t \in GeomTypes \ {"Polygon"} :
            args = [fn |-> "geotiff_convert_pixels_to_geometry", src |-> src,
                    gtype |-> t, flat |-> FALSE, pixels |-> << >>]
       \/ \E geom \in Geoms, fn \in {"get_geom_points", "get_geom_bboxes"} :
            args = [fn |-> fn, geom |-> geom]
       \/ \E geom \in Geoms, flatten \in BOOLEAN :
            args = [fn |-> "get_geom_polygons", geom |-> geom,
                    flatten |-> flatten]
    /\ ret = NoReturn

PixelsNext ==
    \/ ConvertGeometryToPixels
    \/ TranslateXyCoordsToIndex
    \/ ConvertPixelsToGeometry
    \/ GetGeomPoints
    \/ GetGeomBboxes
    \/ GetGeomPolygons

InitPixels == PixelsInit /\ LockInit /\ ChipsIdle /\ BatchIdle /\ PngIdle

SpecPixels == InitPixels /\ [][PixelsNext]_vars

(***************************************************************************)
(* parse_subregion_and_years_from_path (src/modeling/yolo.py) on the file  *)
(* names parse_filename documents.  A str is the sequence of its           *)
(* characters.                                                             *)
(***************************************************************************)
Digits == <<"0", "1", "2", "3", "4", "5", "6", "7", "8", "9">>

\* c.isdigit()
IsDigit(c) == \E d \in DOMAIN Digits : Digits[d] = c

\* s.isnumeric(): not empty and all digits
IsNumeric(s) == s # << >> /\ \A i \in DOMAIN s : IsDigit(s[i])

\* int(s) of a numeric str
RECURSIVE IntOf(_)
IntOf(s) ==
    IF s = << >>
    THEN 0
    ELSE 10 * IntOf(SubSeq(s, 1, Len(s) - 1))
            + (CHOOSE d \in DOMAIN Digits : Digits[d] = s[Len(s)]) - 1

\* c.lower() for the capitals of the file names
LowerChar(c) ==
    CASE c = "A" -> "a" [] c = "B" -> "b" [] c = "D" -> "d" [] c = "E" -> "e"
      [] c = "I" -> "i" [] c = "N" -> "n" [] c = "V" -> "v" [] OTHER -> c

\* s.lower()
Lower(s) == [i \in DOMAIN s |-> LowerChar(s[i])]

\* s.split(sep) for a separator that is in s or not
RECURSIVE StrSplit(_, _)
StrSplit(s, sep) ==
    IF IsSubstring(sep, s)
    THEN LET i == CHOOSE k \in 0..(Len(s) - Len(sep)) :
                     /\ SubSeq(s, k + 1, k + Len(sep)) = sep
                     /\ \A j \in 0..(k - 1) : SubSeq(s, j + 1, j + Len(sep)) # sep
         IN <<SubSeq(s, 1, i)>>
               \o StrSplit(SubSeq(s, i + Len(sep) + 1, Len(s)), sep)
    ELSE <<s>>

\* s[-2:]
LastTwo(s) == SubSeq(s, Max(1, Len(s) - 1), Len(s))

\* the index of the first digit of s, from 0; len(s) when there is none
FirstDigit(s) ==
    IF \E i \in DOMAIN s : IsDigit(s[i])
    THEN (CHOOSE i \in DOMAIN s :
             IsDigit(s[i]) /\ \A j \in 1..(i - 1) : ~IsDigit(s[j])) - 1
    ELSE Len(s)

\* the word looked for in the second part of the name
Keyword == <<"e", "x", "t", "e", "n", "d", "e", "d">>

\* the last two lines: years.split("to"), then the two int()
YearPair(subregion, years) ==
    LET ys == StrSplit(years, <<"t", "o">>)
    IN IF ~IsNumeric(ys[1]) THEN Raised("ValueError")
       ELSE IF Len(ys) < 2 THEN Raised("IndexError")
       ELSE IF ~IsNumeric(ys[2]) THEN Raised("ValueError")
       ELSE Returned(<<subregion, <<IntOf(ys[1]), IntOf(ys[2])>>>>)

parse_subregion_and_years_from_path(image_path) ==
    LET parts == StrSplit(SplitExt(image_path), <<"_">>)
        subregion == parts[1]
        start == FirstDigit(subregion)
    IN IF Len(parts) < 2 THEN Raised("IndexError")
       ELSE IF IsSubstring(Keyword, Lower(parts[2]))
       THEN IF Len(parts) < 3 THEN Raised("IndexError")
            ELSE YearPair(subregion \o <<"E">>, parts[3])
       ELSE IF IsNumeric(LastTwo(subregion))
       THEN IF start >= Len(subregion) THEN Raised("ValueError")
            ELSE YearPair(SubSeq(subregion, 1, start),
                          SubSeq(subregion, start + 1, Len(subregion)))
       ELSE YearPair(subregion, parts[2])

ParseSubregionAndYearsFromPath ==
    /\ args.fn = "parse_subregion_and_years_from_path"
    /\ ~ret.done
    /\ ret' = parse_subregion_and_years_from_path(args.image_path)
    /\ UNCHANGED <<args, lockVars, chipVars, batchVars, pngVars>>

\* subregions: letters, then digits or none
Subregions ==
    {l \o d : l \in SeqsUpTo({"A", "B"}, MaxName),
              d \in {<< >>} \cup SeqsUpTo({"1", "2"}, MaxName)}

Years == {<<"2", "0", "1", "5">>, <<"2", "0", "1", "9">>, <<"2", "0", "2", "3">>}

\* <Subregion>[_Expanded]_<StartYear>to<EndYear>_NDVI_Difference.tif
NdviName(subregion, expanded, startyear, endyear) ==
    subregion
      \o (IF expanded
          THEN <<"_", "E", "x", "p", "a", "n", "d", "e", "d">> ELSE << >>)
      \o <<"_">> \o startyear \o <<"t", "o">> \o endyear
      \o <<"_", "N", "D", "V", "I", "_">>
      \o <<"D", "i", "f", "f", "e", "r", "e", "n", "c", "e">>
      \o <<".", "t", "i", "f">>

NamesInit ==
    /\ \E s \in Subregions, e \in BOOLEAN, y1 \in Years, y2 \in Years :
         args = [fn |-> "parse_subregion_and_years_from_path",
                 subregion |-> s, expanded |-> e,
                 startyear |-> y1, endyear |-> y2,
                 image_path |-> NdviName(s, e, y1, y2)]
    /\ ret = NoReturn

NamesNext == ParseSubregionAndYearsFromPath

InitNames == NamesInit /\ LockInit /\ ChipsIdle /\ BatchIdle /\ PngIdle

SpecNames == InitNames /\ [][NamesNext]_vars

(***************************************************************************)
(* process_geotiff_to_png_conversion: the workers of its pool run __exec__ *)
(* on the .tif files of src_dir.  Path(w, n) is the n-th file worker w     *)
(* takes; the files lie in src_dir itself.                                 *)
(***************************************************************************)
Path(w, n) == <<w, n>>

\* dest_dir, which is there when the pool starts
DestDir == <<"dest_dir">>

\* dest_path = dest_dir / relpath.with_suffix(".png")
DestPath(path) == <<"dest_dir", path, "png">>

\* the file worker w is on
Current(w) == Path(w, wcalls[w])

\* the last __exec__ of worker w has written its entry
Stored(w) == wcalls[w] = 0 \/ Current(w) \in DOMAIN file_map

\* __exec__(path) up to the call of tiff_to_png: a worker of the pool takes
\* the next file, makes the parent of dest_path and enters tiff_to_png
Exec(w) ==
    /\ wpc[w] = "idle"
    /\ wcalls[w] < MaxCalls
    /\ Stored(w)
    /\ dirs' = dirs \cup {DestDir}
    /\ wkind' = [wkind EXCEPT ![w] = "tiff_to_png"]
    /\ wpc' = [wpc EXCEPT ![w] = "prepare"]
    /\ wlock' = [wlock EXCEPT ![w] = None]
    /\ wexc' = [wexc EXCEPT ![w] = None]
    /\ wthrown' = [wthrown EXCEPT ![w] = None]
    /\ wreleased' = [wreleased EXCEPT ![w] = 0]
    /\ wresult' = [wresult EXCEPT ![w] = NoResult]
    /\ wcalls' = [wcalls EXCEPT ![w] = @ + 1]
    /\ UNCHANGED <<locked, rast, job, task, fsys, batchVars, funVars, pngVars>>

\* file_map[path.stem] = {"tif": path, "png": dest_path}, once tiff_to_png
\* has returned
Store(w) ==
    /\ wpc[w] = "idle"
    /\ ~Stored(w)
    /\ file_map' = file_map @@
                     (Current(w) :> [tif |-> Current(w), png |-> DestPath(Current(w))])
    /\ UNCHANGED <<lockVars, chipVars, batchVars, funVars>>

PngInit ==
    /\ rast = << >>
    /\ job = [chip_size |-> <<NoneVal, NoneVal>>, exist_ok |-> FALSE, persist |-> FALSE]
    /\ task = << >>
    /\ fsys = {}
    /\ dirs = {DestDir}
    /\ file_map = << >>

PngNext ==
    \/ \E w \in Workers : Exec(w)
    \/ \E w \in Workers : Prepare(w)
    \/ \E w \in Workers : Poll(w)
    \/ \E w \in Workers : Acquire(w)
    \/ \E w \in Workers : GuardedWrite(w)
    \/ \E w \in Workers : Free(w)
    \/ \E w \in Workers : Handler(w)
    \/ \E w \in Workers : Store(w)

InitPng == PngInit /\ LockInit /\ BatchIdle /\ FunIdle

SpecPng == InitPng /\ [][PngNext]_vars

(***************************************************************************)
(* The dataset helpers: split_dataset (src/ftcnn/modeling/utils.py),       *)
(* predict_on_image_stream and yolo_get_labels_and_images                  *)
(* (src/modeling/yolo.py).                                                 *)
(***************************************************************************)
\* int(len(image_label_paths) * split) for the ratio split = <<num, den>>
SplitIndex(n, split) == (n * split[1]) \div split[2]

\* mutant of Seen: no stem is ever taken as seen
NeverSeen(image_stem, stems) == FALSE

\* image_stem in stems
Seen(image_stem, stems) == image_stem \in stems

\* one of the two loops: the images and labels kept, and the stems seen
RECURSIVE Collect(_, _)
Collect(pairs, acc) ==
    IF pairs = << >>
    THEN acc
    ELSE LET data == Head(pairs)
         IN IF Seen(data.image.stem, acc.stems)
            THEN Collect(Tail(pairs), acc)
            ELSE Collect(Tail(pairs),
                         [stems |-> acc.stems \cup {data.image.stem},
                          images |-> Append(acc.images, data.image),
                          labels |-> Append(acc.labels, data.label)])

split_dataset(image_label_paths, split) ==
    LET n == Len(image_label_paths)
        k == SplitIndex(n, split)
        train == Collect(SubSeq(image_label_paths, 1, k),
                         [stems |-> {}, images |-> << >>, labels |-> << >>])
        val == Collect(SubSeq(image_label_paths, k + 1, n),
                       [stems |-> train.stems, images |-> << >>, labels |-> << >>])
    IN <<<<train.images, train.labels>>, <<val.images, val.labels>>>>

SplitDataset ==
    /\ args.fn = "split_dataset"
    /\ ~ret.done
    /\ ret' = Returned(split_dataset(args.image_label_paths, args.split))
    /\ UNCHANGED <<args, lockVars, chipVars, batchVars, pngVars>>

\* seq[i : j], with i and j counted from 0 as Python does
Slice(seq, i, j) == SubSeq(seq, i + 1, Min(j, Len(seq)))

\* the lists of a list of lists, one after the other
RECURSIVE Concat(_)
Concat(lists) ==
    IF lists = << >> THEN << >> ELSE Head(lists) \o Concat(Tail(lists))

\* get_result_stats(result) for the result of an image
ResultStats(image) == <<"stats", image.id>>

\* the starts of the batches: range(0, len(images) - 1, batch_size)
StreamStarts(n, batch_size) == Ascending(PyRange(0, n - 1, batch_size))

\* what one batch yields: a result for each of its images, with
\* images[i + j][1]
BatchItems(images, i, batch_size) ==
    LET batch == Slice(images, i, i + batch_size)
    IN [j \in DOMAIN batch |-> <<ResultStats(batch[j]), images[i + j].coords>>]

\* the generator, run to its end with a model that raises no error: the
\* batches handed to model.predict and the items yielded
predict_on_image_stream(images, batch_size) ==
    LET starts == StreamStarts(Len(images), batch_size)
    IN [batches |-> [b \in DOMAIN starts |->
                        Slice(images, starts[b], starts[b] + batch_size)],
        items |-> Concat([b \in DOMAIN starts |->
                             BatchItems(images, starts[b], batch_size)])]

PredictOnImageStream ==
    /\ args.fn = "predict_on_image_stream"
    /\ ~ret.done
    /\ ret' = Returned(predict_on_image_stream(args.images, args.batch_size))
    /\ UNCHANGED <<args, lockVars, chipVars, batchVars, pngVars>>

\* __preprocess_paths__: the files of a directory sorted by stem, without
\* those that have no file of the same stem in the other directory
Matched(sources, targets) == Ascending(sources \cap targets)

\* __collect_labels_and_images__ on a slice of the two lists: the labels
\* and the images of its pairs
CollectLabelsAndImages(lpaths, ipaths) ==
    <<[i \in DOMAIN lpaths |-> <<"label", lpaths[i]>>],
      [i \in DOMAIN ipaths |-> <<"image", ipaths[i]>>]>>

\* the slices submitted to the pool: range(0, len(label_paths), batch)
Batches(paths, batch) ==
    LET starts == Ascending(PyRange(0, Len(paths), batch))
    IN [b \in DOMAIN starts |-> Slice(paths, starts[b], starts[b] + batch)]

\* yolo_get_labels_and_images; order is the order in which the futures
\* complete.  range() refuses a step of 0.
yolo_get_labels_and_images(label_dir, image_dir, num_workers, order) ==
    LET label_paths == Matched(label_dir, image_dir)
        image_paths == Matched(image_dir, label_dir)
        batch == Len(label_paths) \div num_workers
        lbatches == Batches(label_paths, batch)
        ibatches == Batches(image_paths, batch)
        results == [b \in DOMAIN lbatches |->
                       CollectLabelsAndImages(lbatches[b], ibatches[b])]
    IN IF batch = 0
       THEN Raised("ValueError")
       ELSE Returned([batches |-> lbatches,
                      labels |-> Concat([b \in DOMAIN results |->
                                            results[order[b]][1]]),
                      images |-> Concat([b \in DOMAIN results |->
                                            results[order[b]][2]])])

\* the number of futures of a call
NumFutures(label_dir, image_dir, num_workers) ==
    LET n == Cardinality(label_dir \cap image_dir)
    IN IF n \div num_workers = 0 THEN 0
       ELSE Cardinality(PyRange(0, n, n \div num_workers))

YoloGetLabelsAndImages ==
    /\ args.fn = "yolo_get_labels_and_images"
    /\ ~ret.done
    /\ \E order \in Permutations(
                       1..NumFutures(args.label_paths, args.image_paths,
                                     args.num_workers)) :
         ret' = yolo_get_labels_and_images(args.label_paths, args.image_paths,
                                           args.num_workers, order)
    /\ UNCHANGED <<args, lockVars, chipVars, batchVars, pngVars>>

\* image files: two directories, two stems
ImageFiles == {[dir |-> d, stem |-> s] : d \in {"d1", "d2"}, s \in {"a", "b"}}

\* the pairs given to split_dataset: an image and the label file of that image
Pairs == {[image |-> f, label |-> <<"label", f>>] : f \in ImageFiles}

\* split ratios from 0 to 1, in quarters
Splits == {<<q, 4>> : q \in 0..4}

\* the images of a stream: an array and the coordinates of its chip
StreamImages == {[id |-> i, coords |-> <<i, i>>] : i \in 1..2}

\* the stems of the files of a directory
Stems == 1..MaxPairs

DataInit ==
    /\ \/ \E pairs \in SeqsUpTo(Pairs, MaxPairs), split \in Splits :
            args = [fn |-> "split_dataset",
                    image_label_paths |-> pairs, split |-> split]
       \/ \E images \in SeqsUpTo(StreamImages, MaxPairs + 1),
             batch_size \in 1..MaxPairs :
            args = [fn |-> "predict_on_image_stream",
                    images |-> images, batch_size |-> batch_size]
       \/ \E ld \in SUBSET Stems, id \in SUBSET Stems, nw \in 1..MaxPairs :
            args = [fn |-> "yolo_get_labels_and_images",
                    label_paths |-> ld, image_paths |-> id, num_workers |-> nw]
    /\ ret = NoReturn

DataNext ==
    \/ SplitDataset
    \/ PredictOnImageStream
    \/ YoloGetLabelsAndImages

InitData == DataInit /\ LockInit /\ ChipsIdle /\ BatchIdle /\ PngIdle

SpecData == InitData /\ [][DataNext]_vars

(***************************************************************************)
(* C1: at most one worker is inside a guarded encode section, in every     *)
(* reachable state.                                                        *)
(***************************************************************************)
MutexWriteLock == Cardinality({w \in Workers : wpc[w] \in Guarded}) <= 1

(***************************************************************************)
(* C2: a write_chip call that acquired the write lock and has ended has    *)
(* released it exactly once and holds it no more; if the guarded write     *)
(* raised, the call ended by raising that same exception.                  *)
(***************************************************************************)
EndedWriteChip(w) ==
    /\ wpc[w] = "idle"
    /\ wkind[w] = "write_chip"
    /\ wresult[w] # NoResult

ReleaseOnAllPaths ==
    \A w \in Workers :
        EndedWriteChip(w) =>
            /\ wreleased[w] = 1
            /\ wlock[w] = None
            /\ (wthrown[w] # None <=> wresult[w] = <<"raised", wthrown[w]>>)
            /\ (wthrown[w] = None <=> wresult[w] = <<"returned", None>>)

ReleaseOnAllPathsWitness ==
    \E w \in Workers :
        /\ EndedWriteChip(w)
        /\ wthrown[w] # None
        /\ wreleased[w] = 1

(***************************************************************************)
(* C3: when create_chips_from_geotiff returns for a chip size w, h > 0,    *)
(* the windows it built partition the pixel bounds: every pixel of         *)
(* [rmin, rmax) x [cmin, cmax) lies in exactly one window, and each window *)
(* is min(w, cmax - col) wide and min(h, rmax - row) high.                 *)
(***************************************************************************)
Covers(win, row, col) ==
    /\ win.row_off <= row /\ row < win.row_off + win.height
    /\ win.col_off <= col /\ col < win.col_off + win.width

WindowsPartitionBounds ==
    \A r \in DOMAIN task :
        LET t == task[r]
        IN (t.pc = "returned" /\ t.width > 0 /\ t.height > 0) =>
             /\ \A i \in DOMAIN t.wins :
                   /\ t.wins[i].width = Min(t.width, t.b.cmax - t.wins[i].col_off)
                   /\ t.wins[i].height = Min(t.height, t.b.rmax - t.wins[i].row_off)
             /\ \A row \in t.b.rmin..(t.b.rmax - 1), col \in t.b.cmin..(t.b.cmax - 1) :
                   Cardinality({i \in DOMAIN t.wins : Covers(t.wins[i], row, col)}) = 1

(***************************************************************************)
(* C4: every window built lies inside the pixel bounds: its offsets are    *)
(* within [rmin, rmax) and [cmin, cmax), its width and height are not      *)
(* negative, and it ends at or before rmax and cmax.                       *)
(***************************************************************************)
InBounds(b, win) ==
    /\ b.rmin <= win.row_off /\ win.row_off < b.rmax
    /\ b.cmin <= win.col_off /\ win.col_off < b.cmax
    /\ win.width >= 0 /\ win.height >= 0
    /\ win.row_off + win.height <= b.rmax
    /\ win.col_off + win.width <= b.cmax

WindowsInBounds ==
    \A r \in DOMAIN task :
        \A i \in DOMAIN task[r].wins : InBounds(task[r].b, task[r].wins[i])

\* a run that built several windows, one of them cut short at the edge
WindowsInBoundsWitness ==
    \E r \in DOMAIN task :
        /\ task[r].pc = "returned"
        /\ Len(task[r].wins) >= 4
        /\ \E i \in DOMAIN task[r].wins :
              /\ task[r].wins[i].width < task[r].width
              /\ task[r].wins[i].height = task[r].height

(***************************************************************************)
(* C5: a 600 x 600 raster cut with chip size (256, 256) gives exactly 9    *)
(* windows; those of the last row are 88 high and those of the last column *)
(* are 88 wide.                                                            *)
(***************************************************************************)
Scenario1Windows ==
    \A r \in DOMAIN task :
        (/\ task[r].pc = "returned"
         /\ rast[r] = Scenario1.rast
         /\ job.chip_size = Scenario1.chip_size) =>
            /\ Len(task[r].wins) = 9
            /\ \A i \in DOMAIN task[r].wins :
                  /\ task[r].wins[i].row_off = 512 => task[r].wins[i].height = 88
                  /\ task[r].wins[i].col_off = 512 => task[r].wins[i].width = 88

(***************************************************************************)
(* C6: with a null chip width or height, a raster that has pixels is cut   *)
(* into exactly one window, at (rmin, cmin), cmax - cmin wide and          *)
(* rmax - rmin high.                                                       *)
(***************************************************************************)
NullSizeCoversRaster ==
    \A r \in DOMAIN task :
        LET t == task[r]
        IN (/\ t.pc = "returned"
            /\ job.chip_size[1].kind = "none" \/ job.chip_size[2].kind = "none"
            /\ t.b.rmin < t.b.rmax /\ t.b.cmin < t.b.cmax) =>
               t.wins = <<[col_off |-> t.b.cmin, row_off |-> t.b.rmin,
                           width |-> t.b.cmax - t.b.cmin,
                           height |-> t.b.rmax - t.b.rmin]>>

(***************************************************************************)
(* C7: a window read as entirely no-data yields no chip: write_chip is not *)
(* called for it and nothing is appended to the chip list for it.          *)
(***************************************************************************)
InChips(t, pos) == \E i \in DOMAIN t.chips : t.chips[i] = pos

VoidWindowYieldsNoChip ==
    \A r \in DOMAIN task :
        \A pos \in task[r].void :
            /\ pos \notin task[r].written \cup task[r].tried
            /\ ~InChips(task[r], pos)

(***************************************************************************)
(* C9: with exist_ok false, a chip path that already exists is never       *)
(* written: when the call comes to that path it raises FileExistsError     *)
(* before the window is built or read, so it cannot return while a path    *)
(* of its grid holds an earlier file.                                      *)
(***************************************************************************)
GridPaths(r) ==
    LET t == task[r]
        pos == Positions(t.b, t.width, t.height)
    IN {ChipPath(r, pos[i][1], pos[i][2]) : i \in DOMAIN pos}

NoOverwriteWithoutExistOk ==
    \A r \in DOMAIN task :
        LET t == task[r]
        IN (job.persist /\ ~job.exist_ok) =>
             /\ t.clobbered = {}
             /\ \A i \in DOMAIN t.wins :
                   OldFile(ChipPath(r, t.wins[i].row_off, t.wins[i].col_off)) \notin fsys
             /\ (t.pc = "raised" /\ t.err = "FileExistsError") =>
                   /\ OldFile(ChipPath(r, Head(t.todo)[1], Head(t.todo)[2])) \in fsys
                   /\ Head(t.todo) \notin t.written
             /\ (t.pc = "returned" /\ t.width > 0 /\ t.height > 0) =>
                   \A f \in fsys : f.path \in GridPaths(r) => f.gen = "new"

\* the collision comes after a first chip was written
NoOverwriteWitness ==
    \E r \in DOMAIN task :
        /\ job.persist /\ ~job.exist_ok
        /\ task[r].pc = "raised" /\ task[r].err = "FileExistsError"
        /\ Len(task[r].chips) > 0
        /\ OldFile(ChipPath(r, MaxChip, MaxChip)) \in fsys

(***************************************************************************)
(* C8: once preprocess_ndvi_difference_geotiffs has returned, a window     *)
(* that the validity test rejected has no chip in the list of its raster,  *)
(* no file written by this run, and no row of the returned table refers    *)
(* to its path.                                                            *)
(***************************************************************************)
RowPaths == {outcome.rows[i].path : i \in DOMAIN outcome.rows}

RejectedNeverListed ==
    (bpc = "done" /\ outcome.kind = "returned") =>
        \A r \in DOMAIN task :
            \A pos \in task[r].rejected :
                /\ ~InChips(task[r], pos)
                /\ pos \notin task[r].written
                /\ ChipPath(r, pos[1], pos[2]) \notin RowPaths

(***************************************************************************)
(* C10: once preprocess_ndvi_difference_geotiffs has ended, every error    *)
(* raised by an extraction worker has been handed to the caller together   *)
(* with its raster.                                                        *)
(***************************************************************************)
WorkerErrorsReported ==
    bpc = "done" =>
        \A r \in DOMAIN task :
            task[r].pc = "raised" => <<r, task[r].err>> \in outcome.errors

(***************************************************************************)
(* C11: when the extraction of one raster of a batch has failed, every     *)
(* other raster submitted with it is still processed to its own end: once  *)
(* the pool is left none of them is queued or running, and each one that   *)
(* returned has gone through its whole grid and written every window the   *)
(* validity test accepted.                                                 *)
(***************************************************************************)
WroteAllValid(r) ==
    LET t == task[r]
        pos == Positions(t.b, t.width, t.height)
    IN /\ t.todo = << >>
       /\ t.width > 0 /\ t.height > 0 => Len(t.wins) = Len(pos)
       /\ \A i \in DOMAIN t.wins :
             LET at == <<t.wins[i].row_off, t.wins[i].col_off>>
             IN /\ at \in t.rejected \cup t.written
                /\ (at \in t.written /\ bpc \in {"map", "clean"}) =>
                      NewFile(ChipPath(r, at[1], at[2]), t.wins[i]) \in fsys

FailureLeavesOthersRunning ==
    (bpc \in {"map", "clean", "done"} /\ outcome.kind # "raised") =>
        \A q \in Images, r \in Images :
            (q # r /\ task[q].pc = "raised") =>
                /\ task[r].pc \in {"returned", "raised"}
                /\ task[r].pc = "returned" => WroteAllValid(r)

\* one raster failed, the other one returned with chips written
FailureLeavesOthersWitness ==
    /\ bpc = "map"
    /\ \E q \in Images, r \in Images :
          /\ task[q].pc = "raised"
          /\ task[r].pc = "returned"
          /\ task[r].written # {}

(***************************************************************************)
(* C12: when no row of gdf matches the requested years, the call raises at *)
(* once: the step that finds no image ends the call with the error and     *)
(* leaves the files and directories of the destination and every           *)
(* extraction task as they were, no task having been submitted.            *)
(***************************************************************************)
NoImageMatches ==
    /\ bopts.years # AllYears
    /\ ~\E a \in gdf : a.start_year = bopts.years[1] /\ a.end_year = bopts.years[2]

EmptySelectionStep ==
    (bpc = "call" /\ NoImageMatches) =>
        /\ outcome'.kind = "raised"
        /\ bpc' = "done"
        /\ fsys' = fsys /\ dirs' = dirs
        /\ task' = task
        /\ \A r \in DOMAIN task : task[r].pc = "idle" /\ task[r].written = {}

EmptySelectionRaisesFirst == [][EmptySelectionStep]_vars

\* the call raised although clean_dest was set and the destination held a file
EmptySelectionWitness ==
    /\ outcome.kind = "raised"
    /\ NoImageMatches
    /\ bopts.clean_dest
    /\ fsys # {}

(***************************************************************************)
(* C13: every row of the returned table carries the years of the raster    *)
(* its chip was cut from, and its geometry is empty or the part of an      *)
(* annotation of that same year pair that lies on the chip.                *)
(***************************************************************************)
\* the year pairs under which gdf lists raster r
RasterYears(r) == {<<a.start_year, a.end_year>> : a \in {x \in gdf : x.path = r}}

RowFootprint(row) ==
    create_chip_polygon([path |-> row.path, width |-> row.width, height |-> row.height])

YearPairIsolation ==
    outcome.kind = "returned" =>
        \A i \in DOMAIN outcome.rows :
            LET row == outcome.rows[i]
                yp == <<row.start_year, row.end_year>>
            IN /\ yp \in RasterYears(row.path[1])
               /\ \/ row.geometry.empty
                  \/ \E a \in gdf :
                        /\ <<a.start_year, a.end_year>> = yp
                        /\ row.geometry = Intersection(a.geometry, RowFootprint(row))

(***************************************************************************)
(* C14: in the rows mapped for a year pair, a chip that k >= 1 annotations *)
(* of the group intersect has exactly k rows, each holding the part of one *)
(* of those annotations that lies on the chip.                             *)
(***************************************************************************)
Target(yp) == {a \in gdf : a.start_year = yp[1] /\ a.end_year = yp[2]}

Hits(yp, f) == {a \in Target(yp) : Intersects(a.geometry, create_chip_polygon(f))}

GroupRows(yp, path) ==
    {x \in table : x.path = path /\ x.start_year = yp[1] /\ x.end_year = yp[2]}

OneRowPerIntersection ==
    bpc = "clean" =>
        \A yp \in GroupYears :
            \A f \in ImagePaths(Target(yp)) :
                Hits(yp, f) # {} =>
                    /\ Cardinality(GroupRows(yp, f.path)) = Cardinality(Hits(yp, f))
                    /\ \A x \in GroupRows(yp, f.path) :
                          \E a \in Hits(yp, f) :
                              x.geometry = Intersection(a.geometry, create_chip_polygon(f))

(***************************************************************************)
(* C15: in the rows mapped for a year pair, a chip that no annotation of   *)
(* the group intersects has exactly one row, and the geometry of that row  *)
(* is the empty polygon.                                                   *)
(***************************************************************************)
OneEmptyRowWhenNoIntersection ==
    bpc = "clean" =>
        \A yp \in GroupYears :
            \A f \in ImagePaths(Target(yp)) :
                Hits(yp, f) = {} =>
                    /\ Cardinality(GroupRows(yp, f.path)) = 1
                    /\ \A x \in GroupRows(yp, f.path) :
                          /\ x.geometry.empty
                          /\ x.width = f.width /\ x.height = f.height

\* a chip written by this run that no annotation of its group lies on
OneEmptyRowWitness ==
    /\ bpc = "clean"
    /\ \E yp \in GroupYears :
          \E f \in ImagePaths(Target(yp)) :
              /\ f.gen = "new"
              /\ Hits(yp, f) = {}
              /\ GroupRows(yp, f.path) # {}

(***************************************************************************)
(* C16: with ignore_empty_geom set, the returned table has no row with an  *)
(* empty geometry, and it has no row at all for a raster on which no       *)
(* annotation of the raster's year pair lies.                              *)
(***************************************************************************)
\* the pixels of raster r, as a footprint
RasterExtent(r) ==
    LET b == Bounds(rast[r])
    IN Rect(b.cmin, b.rmin, b.cmax, b.rmax)

\* no annotation of the year pairs of raster r lies on the raster
Untouched(r) ==
    \A a \in gdf :
        <<a.start_year, a.end_year>> \in RasterYears(r) =>
            ~Intersects(a.geometry, RasterExtent(r))

EmptyRowsDropped ==
    (outcome.kind = "returned" /\ bopts.ignore_empty_geom) =>
        /\ \A i \in DOMAIN outcome.rows : ~outcome.rows[i].geometry.empty
        /\ \A r \in DOMAIN rast :
              Untouched(r) => \A i \in DOMAIN outcome.rows : outcome.rows[i].path[1] # r

(***************************************************************************)
(* C17: the clean-up removes a chip file only if no row of the returned    *)
(* table refers to it: with ignore_empty_geom set, every row of the        *)
(* returned table refers to a chip file that is still there.               *)
(***************************************************************************)
OnlyOrphansRemoved ==
    (outcome.kind = "returned" /\ bopts.ignore_empty_geom) =>
        \A i \in DOMAIN outcome.rows : Exists(outcome.rows[i].path)

(***************************************************************************)
(* C18: a directory the clean-up removes lists nothing when it goes, and   *)
(* it is the parent of a chip file the clean-up deleted, or the parent of  *)
(* such a removed parent: nothing above output_dir is removed.             *)
(***************************************************************************)
\* directory e lies right under directory d
Under(e, d) == Len(e) = Len(d) + 1 /\ \A i \in DOMAIN d : e[i] = d[i]

CleanupStep ==
    bpc = "clean" =>
        \A d \in dirs \ dirs' :
            /\ \A f \in fsys' : ChipDir(f.path[1]) # d
            /\ d = Root => fsys' = {}
            /\ \A e \in dirs' : ~Under(e, d)
            /\ \/ \E f \in fsys \ fsys' : d = ChipDir(f.path[1])
               \/ /\ d = Root
                  /\ \E f \in fsys \ fsys' : ChipDir(f.path[1]) \in dirs \ dirs'

CleanupKeepsNonEmpty == [][CleanupStep]_vars

\* the directory of one raster went, that of the other one stays with its chips
CleanupWitness ==
    /\ bpc = "done" /\ bopts.ignore_empty_geom
    /\ \E r \in DOMAIN task, q \in DOMAIN task :
          /\ task[r].written # {}
          /\ ChipDir(r) \notin dirs
          /\ ChipDir(q) \in dirs /\ \E f \in fsys : f.path[1] = q
          /\ Root \in dirs /\ Top \in dirs

\* output_dir itself went, the directory it lies in stays
CleanupRootWitness ==
    /\ bpc = "done" /\ bopts.ignore_empty_geom
    /\ \E r \in DOMAIN task : task[r].written # {}
    /\ dirs = {Top}

(***************************************************************************)
(* C19: the returned table is in non-decreasing order of (start_year,      *)
(* end_year) and holds no row twice, in whatever order the extraction      *)
(* workers ran and ended.                                                  *)
(***************************************************************************)
SortedAndDistinct ==
    outcome.kind = "returned" =>
        \A i \in DOMAIN outcome.rows, j \in DOMAIN outcome.rows :
            i < j =>
                LET x == outcome.rows[i]
                    y == outcome.rows[j]
                IN /\ x # y
                   /\ \/ x.start_year < y.start_year
                      \/ x.start_year = y.start_year /\ x.end_year <= y.end_year

\* both workers were at work and rows of both year pairs are returned
SortedAndDistinctWitness ==
    /\ outcome.kind = "returned"
    /\ bopts.num_workers = 2
    /\ Len(outcome.rows) >= 3
    /\ \E i \in DOMAIN outcome.rows, j \in DOMAIN outcome.rows :
          outcome.rows[i].start_year # outcome.rows[j].start_year
    /\ \A r \in DOMAIN task : task[r].written # {}

(***************************************************************************)
(* C20: geotiff_convert_geometry_to_pixels returns, vertex by vertex and   *)
(* in vertex order, the point (min(max(col, 0), width - 1),                *)
(* min(max(row, 0), height - 1)) for the (row, col) of the vertex's index  *)
(* lookup; every point lies in [0, width - 1] x [0, height - 1] and a      *)
(* vertex inside that range comes out as (col, row).                       *)
(***************************************************************************)
ConvertedToPixels ==
    /\ ret.done
    /\ args.fn = "geotiff_convert_geometry_to_pixels"
    /\ ret.err = None

LookupOf(i) == SrcIndex(args.src, args.coords[i][1], args.coords[i][2])

GeoToPixelIsClamp ==
    ConvertedToPixels =>
        /\ Len(ret.value) = Len(args.coords)
        /\ \A i \in DOMAIN args.coords :
              LET row == LookupOf(i)[1]
                  col == LookupOf(i)[2]
                  w == args.src.width
                  h == args.src.height
              IN /\ ret.value[i] = <<Min(Max(col, 0), w - 1), Min(Max(row, 0), h - 1)>>
                 /\ ret.value[i][1] \in 0..(w - 1)
                 /\ ret.value[i][2] \in 0..(h - 1)
                 /\ (col \in 0..(w - 1) /\ row \in 0..(h - 1)) =>
                       ret.value[i] = <<col, row>>

\* one vertex is clipped on both axes, another one is inside with row # col
GeoToPixelWitness ==
    /\ ConvertedToPixels
    /\ \E i \in DOMAIN args.coords :
          LookupOf(i)[2] > args.src.width - 1 /\ LookupOf(i)[1] < 0
    /\ \E i \in DOMAIN args.coords :
          /\ LookupOf(i)[2] \in 0..(args.src.width - 1)
          /\ LookupOf(i)[1] \in 0..(args.src.height - 1)
          /\ LookupOf(i)[1] # LookupOf(i)[2]

(***************************************************************************)
(* C21: once translate_xy_coords_to_index has returned, the geometry of    *)
(* every row of the table is in chip-local pixel coordinates, whatever its *)
(* type and whether or not the chip file of the row exists.                *)
(***************************************************************************)
Translated == ret.done /\ args.fn = "translate_xy_coords_to_index"

SingleFrame ==
    Translated =>
        \A i \in DOMAIN ret.value : ret.value[i].geometry.frame = "pixel"

(***************************************************************************)
(* C22: a call of get_geom_points, get_geom_bboxes, get_geom_polygons,     *)
(* geotiff_convert_geometry_to_pixels or geotiff_convert_pixels_to_geometry *)
(* on a geometry that is neither a Polygon nor a MultiPolygon (nor a list) *)
(* ends with an error, never with a normal result.                         *)
(***************************************************************************)
GeomConsumers == {"get_geom_points", "get_geom_bboxes", "get_geom_polygons"}

Translators ==
    {"geotiff_convert_geometry_to_pixels", "geotiff_convert_pixels_to_geometry"}

UnknownGeometry ==
    \/ args.fn \in GeomConsumers
         /\ args.geom.gtype \notin {"Polygon", "MultiPolygon"}
    \/ args.fn \in Translators
         /\ args.gtype \notin {"Polygon", "MultiPolygon", "list"}

UnknownGeometryFails == (ret.done /\ UnknownGeometry) => ret.err # None

(***************************************************************************)
(* C23: for every multi-polygon, get_geom_polygons(geom, flatten=True)     *)
(* returns a list in which no two polygons share an edge or overlap,       *)
(* whatever the order of the constituent polygons.                         *)
(***************************************************************************)
FlattenCalled ==
    /\ ret.done
    /\ args.fn = "get_geom_polygons"
    /\ args.flatten
    /\ args.geom.gtype = "MultiPolygon"

FlattenFixedPoint ==
    FlattenCalled =>
        /\ ret.err = None
        /\ \A i \in DOMAIN ret.value, j \in DOMAIN ret.value :
              i # j => /\ ~Adjacent(ret.value[i], ret.value[j])
                       /\ ret.value[i] \cap ret.value[j] = {}

(***************************************************************************)
(* C25: geotiff_convert_pixels_to_geometry, called with a flat list        *)
(* [x0, y0, ..., x(n-1), y(n-1)] of 2n numbers, builds its polygon from    *)
(* exactly the n vertices (x0, y0), ..., (x(n-1), y(n-1)), in that order   *)
(* (n >= 3, the least a polygon takes).                                    *)
(***************************************************************************)
FlatListConverted ==
    /\ ret.done
    /\ args.fn = "geotiff_convert_pixels_to_geometry"
    /\ args.gtype = "list"
    /\ args.flat
    /\ Len(args.pixels) >= 6

FlatListIsVertexList ==
    FlatListConverted =>
        /\ ret.err = None
        /\ ret.value.ring =
              [i \in 1..(Len(args.pixels) \div 2) |->
                  <<args.pixels[2 * i - 1], args.pixels[2 * i]>>]

(***************************************************************************)
(* C24: parse_subregion_and_years_from_path on a file name                 *)
(* <Subregion>[_Expanded]_<StartYear>to<EndYear>_NDVI_Difference.tif       *)
(* returns, without raising, the subregion (with the suffix "E" when the   *)
(* name is an expanded one) and the pair of the two years; in particular   *)
(* ("A12E", (2015, 2019)) for A12_Expanded_2015to2019_NDVI_Difference.tif. *)
(***************************************************************************)
NameParsed == ret.done /\ args.fn = "parse_subregion_and_years_from_path"

ParsesDocumentedNames ==
    NameParsed =>
        /\ ret.err = None
        /\ ret.value =
              <<args.subregion \o (IF args.expanded THEN <<"E">> ELSE << >>),
                <<IntOf(args.startyear), IntOf(args.endyear)>>>>

(***************************************************************************)
(* C26: while the pool of process_geotiff_to_png_conversion runs, no       *)
(* object other than the write lock is written by more than one worker:    *)
(* the entries of file_map all come from the same worker.                  *)
(***************************************************************************)
Writers(map) == {path[1] : path \in DOMAIN map}

OnlyLockShared == Cardinality(Writers(file_map)) <= 1

(***************************************************************************)
(* C27: under fair scheduling of the workers, each making at most MaxCalls *)
(* guarded writes, every worker that polls for the write lock eventually   *)
(* holds it, every worker inside a call eventually leaves it, and the lock *)
(* is free whenever no worker is inside a call.                            *)
(***************************************************************************)
\* a worker stops polling only to take the lock, and then holds it
PollEndsInLock(w) ==
    /\ wpc[w] = "poll" => wpc'[w] \in {"poll", "lock"}
    /\ wpc[w] = "lock" => wpc'[w] \in {"lock", "write"}

AllFinished == \A w \in Workers : wpc[w] = "idle"

\* no worker polls or runs for ever, a poll ends only by the lock being
\* taken, and the lock is free whenever every worker has finished
NoStarvation ==
    /\ [][\A w \in Workers : PollEndsInLock(w)]_vars
    /\ <>[]AllFinished
    /\ [](AllFinished => ~locked)

\* a worker polls while another one holds the lock
NoStarvationWitness ==
    \E w \in Workers, v \in Workers :
        /\ w # v
        /\ wpc[w] = "poll"
        /\ wpc[v] \in Guarded
        /\ locked

(***************************************************************************)
(* C28: split_dataset returns training and validation images that have no  *)
(* stem in common, no stem twice in either list, and the training images   *)
(* all come from the first int(n * split) pairs of the list.               *)
(***************************************************************************)
SplitDone == ret.done /\ args.fn = "split_dataset"

Distinct(images) ==
    \A i \in DOMAIN images, j \in DOMAIN images :
       i # j => images[i].stem # images[j].stem

TrainValDisjoint ==
    SplitDone =>
        LET train == ret.value[1][1]
            val == ret.value[2][1]
            pairs == args.image_label_paths
            first == (Len(pairs) * args.split[1]) \div args.split[2]
        IN /\ \A i \in DOMAIN train, j \in DOMAIN val : train[i].stem # val[j].stem
           /\ Distinct(train)
           /\ Distinct(val)
           /\ \A i \in DOMAIN train :
                 \E m \in 1..first : pairs[m].image = train[i]

\* a stem of the training part comes again in the validation part, which
\* keeps another image
TrainValDisjointWitness ==
    /\ SplitDone
    /\ ret.value[1][1] # << >>
    /\ ret.value[2][1] # << >>
    /\ \E m \in DOMAIN args.image_label_paths :
          /\ m > (Len(args.image_label_paths) * args.split[1]) \div args.split[2]
          /\ \E i \in DOMAIN ret.value[1][1] :
                ret.value[1][1][i].stem = args.image_label_paths[m].image.stem

(***************************************************************************)
(* C29: predict_on_image_stream, on a list of one or more images, with a   *)
(* batch size of 1 or more and a model that raises no error, hands every   *)
(* image to the model in exactly one batch and yields exactly one item per *)
(* image, in the order of the list, each with the coords of its image.     *)
(***************************************************************************)
StreamDone == ret.done /\ args.fn = "predict_on_image_stream"

StreamCoversImages ==
    StreamDone =>
        /\ Concat(ret.value.batches) = args.images
        /\ ret.value.items =
              [i \in DOMAIN args.images |->
                  <<<<"stats", args.images[i].id>>, args.images[i].coords>>]

(***************************************************************************)
(* C30: yolo_get_labels_and_images, on n >= 1 matched pairs and any        *)
(* num_workers >= 1, does not raise from its batching, submits every pair  *)
(* in exactly one batch and returns the labels and images of all n pairs.  *)
(***************************************************************************)
YoloDone ==
    /\ ret.done
    /\ args.fn = "yolo_get_labels_and_images"
    /\ args.label_paths \cap args.image_paths # {}

Range(seq) == {seq[i] : i \in DOMAIN seq}

BatchesCoverPairs ==
    YoloDone =>
        LET matched == args.label_paths \cap args.image_paths
        IN /\ ret.err = None
           /\ Len(Concat(ret.value.batches)) = Cardinality(matched)
           /\ Range(Concat(ret.value.batches)) = matched
           /\ Range(ret.value.labels) = {<<"label", p>> : p \in matched}
           /\ Range(ret.value.images) = {<<"image", p>> : p \in matched}

====
